---- MODULE Spec2Model ----
(***************************************************************************)
(* update.py of ScoopInstaller/Nirsoft: one pass over the catalog of PAD   *)
(* descriptors, the URL state table cache/urls.csv, the freshness check    *)
(* update_row, the manifest builder do_padfile and the diffing writer      *)
(* rewrite_json.                                                           *)
(*                                                                         *)
(* Text is a sequence of symbols.  A symbol is one character that matters  *)
(* to json and to the regular expression \s+ (brace, colon, comma, quote,  *)
(* backslash, space, newline) or a word: a run of other characters, which  *)
(* holds no whitespace, no quote and no backslash and is never split.      *)
(***************************************************************************)
EXTENDS Integers, Sequences, FiniteSets, TLC

\* ------------------------------------------------------------------ bounds
\* Upstream modification times are 0..MaxTime (0 is the epoch itself).
MaxTime == 2

\* ------------------------------------------------------------- JSON text
QUOTE == "\""
BSLASH == "\\"
SP == " "
NL == "\n"

\* \s of re.sub(r"\s+", " ", ...)
IsSpace(c) == c \in {SP, NL}

\* json's escaping of a string's characters: a newline becomes \n (two
\* characters, neither of them whitespace); a space stays a space.
RECURSIVE Escape(_)
Escape(s) ==
    IF s = <<>> THEN <<>>
    ELSE IF Head(s) = NL THEN <<BSLASH, "n">> \o Escape(Tail(s))
    ELSE <<Head(s)>> \o Escape(Tail(s))

Quoted(s) == <<QUOTE>> \o Escape(s) \o <<QUOTE>>

\* One "key": "value" member; the key separator is ": " in every style the
\* program writes.
Member(kv, keysep) == Quoted(<<kv[1]>>) \o keysep \o Quoted(kv[2])

RECURSIVE Members(_, _, _, _)
Members(rec, lead, keysep, itemsep) ==
    IF rec = <<>> THEN <<>>
    ELSE lead \o Member(Head(rec), keysep)
         \o (IF Len(rec) > 1 THEN itemsep ELSE <<>>)
         \o Members(Tail(rec), lead, keysep, itemsep)

\* json.dumps(obj): separators ", " and ": " on one line.
JsonDumps(rec) == <<"{">> \o Members(rec, <<>>, <<":", SP>>, <<",", SP>>) \o <<"}">>

\* json.dump(obj, fh, indent=4): one member per line, four spaces of indent.
JsonDumpIndent4(rec) ==
    IF rec = <<>> THEN <<"{", "}">>
    ELSE <<"{", NL>>
         \o Members(rec, <<SP, SP, SP, SP>>, <<":", SP>>, <<",", NL>>)
         \o <<NL, "}">>

\* Other layouts of the same document, as an editor or a formatter leaves it.
Format(rec, style) ==
    CASE style = "indent4" -> JsonDumpIndent4(rec)
      [] style = "dumps" -> JsonDumps(rec)
      [] style = "compact" -> <<"{">> \o Members(rec, <<>>, <<":">>, <<",">>) \o <<"}">>
      [] style = "indent2" ->
            <<"{", NL>> \o Members(rec, <<SP, SP>>, <<":", SP>>, <<",", NL>>)
            \o <<NL, "}", NL>>

\* The scanner of json.load, one symbol at a time: whitespace between tokens
\* is skipped, a string runs from a quote to the next unescaped quote and \n
\* is unescaped.  Tokens are sequences of symbols; a string token starts with
\* QUOTE.  mode is "out" (between tokens), "str" (in a string), "esc" (after a
\* backslash in a string) or "bad" (an escape json does not know).
ScanStart == [toks |-> <<>>, acc |-> <<>>, mode |-> "out"]

ScanStep(st, c) ==
    CASE st.mode = "out" ->
            IF IsSpace(c) THEN st
            ELSE IF c = QUOTE THEN [st EXCEPT !.mode = "str", !.acc = <<QUOTE>>]
            ELSE [st EXCEPT !.toks = Append(@, <<c>>)]
      [] st.mode = "str" ->
            IF c = QUOTE THEN [toks |-> Append(st.toks, st.acc), acc |-> <<>>, mode |-> "out"]
            ELSE IF c = BSLASH THEN [st EXCEPT !.mode = "esc"]
            ELSE [st EXCEPT !.acc = Append(@, c)]
      [] st.mode = "esc" ->
            IF c = "n" THEN [st EXCEPT !.mode = "str", !.acc = Append(@, NL)]
            ELSE [st EXCEPT !.mode = "bad"]
      [] OTHER -> st

\* The scanner over s[lo..hi], halving the range.
RECURSIVE ScanRange(_, _, _, _)
ScanRange(s, lo, hi, st) ==
    IF lo > hi THEN st
    ELSE IF lo = hi THEN ScanStep(st, s[lo])
    ELSE LET mid == (lo + hi) \div 2
             left == ScanRange(s, lo, mid, st)
         IN IF left.mode = "bad" THEN left ELSE ScanRange(s, mid + 1, hi, left)

\* The tokens of a text; an unterminated string yields the token <<"!">>.
Scan(s) ==
    LET st == ScanRange(s, 1, Len(s), ScanStart)
    IN IF st.mode = "out" THEN st.toks ELSE Append(st.toks, <<"!">>)

IsStr(tok) == tok # <<>> /\ tok[1] = QUOTE

\* The members between the braces: string : string (, string : string)*
RECURSIVE ParseMembers(_)
ParseMembers(toks) ==
    IF Len(toks) >= 3 /\ IsStr(toks[1]) /\ Len(toks[1]) = 2
       /\ toks[2] = <<":">> /\ IsStr(toks[3])
    THEN LET kv == <<toks[1][2], Tail(toks[3])>>
             rest == SubSeq(toks, 4, Len(toks))
         IN IF rest = <<>> THEN [ok |-> TRUE, rec |-> <<kv>>]
            ELSE IF Head(rest) = <<",">>
                 THEN LET more == ParseMembers(Tail(rest))
                      IN [ok |-> more.ok, rec |-> <<kv>> \o more.rec]
            ELSE [ok |-> FALSE, rec |-> <<>>]
    ELSE [ok |-> FALSE, rec |-> <<>>]

\* json.load(fh): ok = FALSE stands for json.JSONDecodeError.
JsonLoad(text) ==
    LET toks == Scan(text)
    IN IF Len(toks) >= 2 /\ toks[1] = <<"{">> /\ toks[Len(toks)] = <<"}">>
       THEN IF Len(toks) = 2 THEN [ok |-> TRUE, rec |-> <<>>]
            ELSE ParseMembers(SubSeq(toks, 2, Len(toks) - 1))
       ELSE [ok |-> FALSE, rec |-> <<>>]

\* A re.sub that replaces nothing: the text as it is.
KeepSpaces(s) == s

\* re.sub(r"\s+", " ", s): every maximal run of whitespace becomes one space,
\* inside string literals as well as between tokens.
RunContinues(p) == p[2]

ReSubSpaces(s) ==
    LET marked == [i \in 1..Len(s) |->
                      <<IF IsSpace(s[i]) THEN SP ELSE s[i],
                        IsSpace(s[i]) /\ i > 1 /\ IsSpace(s[i - 1])>>]
        kept == SelectSeq(marked, LAMBDA p : ~RunContinues(p))
    IN [i \in 1..Len(kept) |-> kept[i][1]]

\* A file of the bucket: absent, or its text.
NoFile == [exists |-> FALSE, text |-> <<>>]
FileOf(text) == [exists |-> TRUE, text |-> text]

\* ------------------------------------------------------ program constants
\* PASSWORDS, by program name.
PASSWORDS ==
    [chromepass |-> "chpass9126*", dialupass |-> "nsdlps3861@", iepv |-> "iepv68861$",
     netpass |-> "ntps5291#", passwordfox |-> "nspsfx403!",
     webbrowserpassview |-> "wbpv28821@", wirelesskeyview |-> "WKey4567#"]

PasswordOf(n) == IF n \in DOMAIN PASSWORDS THEN PASSWORDS[n] ELSE ""

NOTES == "If this application is useful to you, please consider donating to NirSoft"

\* The programs of the catalog the model follows: an ordinary one and a
\* password-protected one.
Names == {"nircmd", "netpass"}

\* str.replace(old, new) on a string held as a sequence of symbols.
Replace(s, old, new) == [i \in 1..Len(s) |-> IF s[i] = old THEN new ELSE s[i]]

\* Primary_Download_URL of the program's descriptor, as upstream publishes it.
PadDownload(n) == <<"http:", "//www.nirsoft.net/utils/", n, ".zip">>

\* ------------------------------------------------------------ URL entries
\* "" in the last_modified column; float("0") is 0.
NoTime == -1
\* "" in the status column (falsy, like the status 0 of no response).
NoStatus == 0

\* dict.fromkeys(URLS_FIELDS, "")
EmptyRow == [url |-> <<>>, status |-> NoStatus, last_modified |-> NoTime,
             hash |-> "", exe |-> <<>>]

\* Urls: a dict in insertion order, as a sequence of [k, v].
RECURSIVE Keys(_)
Keys(d) == IF d = <<>> THEN {} ELSE {Head(d).k} \cup Keys(Tail(d))

Has(d, k) == \E i \in 1..Len(d) : d[i].k = k

Get(d, k, default) ==
    IF Has(d, k) THEN d[CHOOSE i \in 1..Len(d) : d[i].k = k].v ELSE default

\* d[k] = v: in place when the key exists, appended otherwise.
Put(d, k, v) ==
    IF Has(d, k) THEN [i \in 1..Len(d) |-> IF d[i].k = k THEN [k |-> k, v |-> v] ELSE d[i]]
    ELSE Append(d, [k |-> k, v |-> v])

\* main, lines 170-174: urls[row["url"]] = row for every row of the table.
RECURSIVE LoadRows(_, _)
LoadRows(rows, d) ==
    IF rows = <<>> THEN d ELSE LoadRows(Tail(rows), Put(d, Head(rows).url, Head(rows)))

LoadCsv(csv) == IF csv.exists THEN LoadRows(csv.rows, <<>>) ELSE <<>>

\* main, lines 204-208: the header and one row per item of urls.
SaveCsv(d) == [exists |-> TRUE, rows |-> [i \in 1..Len(d) |-> d[i].v]]

NoCsv == [exists |-> FALSE, rows |-> <<>>]

\* --------------------------------------------------------------- upstream
\* What upstream serves at url when its modification time is t: the bytes
\* (named, so that different bytes have different names) and, when they are
\* a zip archive, its directory.
Served(url, t) ==
    [bytes |-> <<url, t>>,
     zip |-> t % 3 # 0,
     names |-> IF t % 3 = 1
               THEN <<<<"readme", ".txt">>, <<url[3], ".exe">>, <<"lib", ".dll">>, <<"x", ".exe">>>>
               ELSE IF t % 3 = 2 THEN <<<<url[3] \o "2", ".exe">>, <<"readme", ".txt">>>>
               ELSE <<>>]

\* sha256sum(data): the hex digest, one word; different bytes, different digest.
sha256sum(data) ==
    "sha256:" \o data.bytes[1][3] \o data.bytes[1][4] \o "@" \o ToString(data.bytes[2])

\* filename.endswith(".exe") for a name held as <<stem, suffix>>.
EndsWithExe(fn) == fn # <<>> /\ fn[Len(fn)] = ".exe"

\* The entry the loop would return if it went on to the end of the directory:
\* the last one that ends with ".exe".
LastExe(names) ==
    IF \E i \in 1..Len(names) : EndsWithExe(names[i])
    THEN names[CHOOSE i \in 1..Len(names) :
                  EndsWithExe(names[i]) /\ \A j \in (i + 1)..Len(names) : ~EndsWithExe(names[j])]
    ELSE <<>>

\* probe_for_exe, lines 105-107: the loop over z.namelist().
RECURSIVE FirstExe(_)
FirstExe(names) ==
    IF names = <<>> THEN <<>>
    ELSE IF EndsWithExe(Head(names)) THEN Head(names) ELSE FirstExe(Tail(names))

\* probe_for_exe(data): BadZipFile is caught and "" returned.
probe_for_exe(data) == IF data.zip THEN FirstExe(data.names) ELSE <<>>

\* The answers of the network to one URL during one call of update_row:
\*   head    "timeout" (requests.head raises) or "status" (a response)
\*   code    the status code of the response
\*   hasLm   whether the response carries a last-modified header
\*   mtime   its value
\*   get     the body fetch, when one is issued: "ok", "status" (a
\*           non-success response, so that raise_for_status raises) or
\*           "timeout" (requests.get raises)
Resp(head, code, hasLm, mtime, get) ==
    [head |-> head, code |-> code, hasLm |-> hasLm, mtime |-> mtime, get |-> get]

\* The body fetches the entry can tell apart: one that succeeds and one that
\* raises (a fetch that raises in requests.get and one that raises in
\* raise_for_status leave the same entry).
Gets == {"ok", "status"}

\* The answers to the metadata probe, with a body fetch that succeeds.
Heads ==
    {Resp("timeout", 0, FALSE, 0, "ok")}
    \cup {Resp("status", c, FALSE, 0, "ok") : c \in {404, 500}}
    \cup {Resp("status", 200, FALSE, 0, "ok")}
    \cup {Resp("status", 200, TRUE, t, "ok") : t \in 0..MaxTime}

Resps == {[h EXCEPT !.get = g] : h \in Heads, g \in Gets}

\* A test that lets the client errors through: only a server error fails.
OkBelow500(code) == code < 500

\* req.ok
Ok(code) == code >= 200 /\ code < 400

\* get(url) with CACHE_DOWNLOADS unset (its default): the operations issued
\* and the body, or the exception.
get(url, r) ==
    IF r.get = "timeout"
         THEN [raised |-> TRUE, data |-> Served(url, r.mtime), ops |-> <<"get">>]
    ELSE IF r.get = "status"
         THEN [raised |-> TRUE, data |-> Served(url, r.mtime), ops |-> <<"get", "pause">>]
    ELSE [raised |-> FALSE, data |-> Served(url, r.mtime), ops |-> <<"get", "pause">>]

\* The skip with the test of check_404s() inverted.
StickyWhenRechecking(row, flag) == row.status # NoStatus /\ row.status = 404 /\ flag

\* No entry is ever skipped.
StickyNever(row, flag) == FALSE

\* update_row, line 127: the entry is skipped without a request.
Sticky(row, flag) == row.status # NoStatus /\ row.status = 404 /\ ~flag

\* The read of check_404s(), which the code reaches only for a row whose
\* stored status is 404 (the operands of "and" are evaluated left to right).
ReadFlag(row, flag) ==
    IF row.status # NoStatus /\ row.status = 404
    THEN <<IF flag THEN "check_404s=TRUE" ELSE "check_404s=FALSE">>
    ELSE <<>>

\* The comparison as "differs from" instead of "is later than".
NewerOrOlder(mtime, last_modified) == mtime # last_modified

\* update_row, line 143: mtime > float(row["last_modified"]).
Newer(mtime, last_modified) == mtime > last_modified

\* update_row(row, url, report_404s): rv and row are the returned pair; when
\* raised, row is the caller's dict as the exception leaves it (the dict is
\* updated in place).  flag is check_404s(), r the answers of the network.
\* ops are the operations in order, ending with the way the call ends.
update_row(row, url, flag, r) ==
    IF Sticky(row, flag)
    THEN [rv |-> FALSE, row |-> row, raised |-> FALSE,
          ops |-> ReadFlag(row, flag) \o <<"return False">>]
    ELSE IF r.head = "timeout"
    THEN [rv |-> FALSE, row |-> row, raised |-> TRUE,
          ops |-> ReadFlag(row, flag) \o <<"head", "raise">>]
    ELSE LET row1 == [row EXCEPT !.url = url, !.status = r.code]
             ops1 == ReadFlag(row, flag) \o <<"head", "pause">>
         IN IF ~Ok(r.code)
            THEN [rv |-> FALSE, row |-> row1, raised |-> FALSE,
                  ops |-> ops1 \o <<"return False">>]
            ELSE IF ~r.hasLm
            THEN [rv |-> FALSE, row |-> row1, raised |-> TRUE, ops |-> ops1 \o <<"raise">>]
            ELSE LET row2 == IF row1.last_modified = NoTime
                             THEN [row1 EXCEPT !.last_modified = 0] ELSE row1
                 IN IF Newer(r.mtime, row2.last_modified)
                    THEN LET row3 == [row2 EXCEPT !.last_modified = r.mtime]
                             g == get(url, r)
                         IN IF g.raised
                            THEN [rv |-> FALSE, row |-> row3, raised |-> TRUE,
                                  ops |-> ops1 \o g.ops \o <<"raise">>]
                            ELSE [rv |-> TRUE,
                                  row |-> [row3 EXCEPT !.hash = sha256sum(g.data),
                                                       !.exe = probe_for_exe(g.data)],
                                  raised |-> FALSE,
                                  ops |-> ops1 \o g.ops \o <<"return True">>]
                    ELSE [rv |-> TRUE, row |-> row2, raised |-> FALSE,
                          ops |-> ops1 \o <<"return True">>]

\* --------------------------------------------------------------- manifest
\* A manifest is a dict in insertion order, as a sequence of <<key, value>>;
\* the members of a nested dict stand in the place of the nested dict under
\* dotted keys, and a value is a sequence of symbols.
RECURSIVE HasKey(_, _)
HasKey(m, key) == m # <<>> /\ (Head(m)[1] = key \/ HasKey(Tail(m), key))

RECURSIVE ValueOf(_, _, _)
ValueOf(m, key, default) ==
    IF m = <<>> THEN default
    ELSE IF Head(m)[1] = key THEN Head(m)[2] ELSE ValueOf(Tail(m), key, default)

\* manifest.pop(key)
RECURSIVE Pop(_, _)
Pop(m, key) ==
    IF m = <<>> THEN <<>>
    ELSE IF Head(m)[1] = key THEN Tail(m) ELSE <<Head(m)>> \o Pop(Tail(m), key)

\* manifest[key] = value for a nested value: its members take the key's place
\* (or the end of the dict when the key is new).
RECURSIVE SetKey(_, _, _)
SetKey(m, key, members) ==
    IF m = <<>> THEN members
    ELSE IF Head(m)[1] = key THEN members \o Tail(m)
    ELSE <<Head(m)>> \o SetKey(Tail(m), key, members)

\* A descriptor document of the catalog archive:
\*   "pad"          a well-formed PAD file of the program, with its version
\*   "malformed"    a document ET.fromstring rejects
\*   "undecodable"  bytes that are not UTF-8
Pad(kind, version) == [kind |-> kind, version |-> version]

\* Program_Version of the descriptors upstream publishes.
Versions == {"2.05", "2.06"}

Pads ==
    {Pad("pad", v) : v \in Versions}
    \cup {Pad("malformed", ""), Pad("undecodable", "")}

\* do_padfile, lines 294-314: the manifest before the architectures are told
\* apart.
BaseManifest(n, version, download, row) ==
    << <<"version", <<version>>>>,
       <<"homepage", <<"https:", "//www.nirsoft.net/utils/", n, ".html">>>>,
       <<"url", download>>,
       <<"bin", row.exe>>,
       <<"shortcuts", row.exe \o <<"NirSoft\\", n>>>>,
       <<"persist", <<n, "_lng.ini", n, ".cfg">>>>,
       <<"hash", <<row.hash>>>>,
       <<"architecture", <<>>>>,
       <<"description", <<"Utility", SP, n>>>>,
       <<"license", <<"Freeware">>>>,
       <<"notes", <<NOTES>>>>,
       <<"checkver.url", <<"https:", "//www.nirsoft.net/pad/", n, ".xml">>>>,
       <<"checkver.xpath", <<"/XML_DIZ_INFO/Program_Info/Program_Version">>>>,
       <<"autoupdate.url", download>> >>

\* Lines 316-330 without the two pops of the 64-bit branch.
WithArchitectureKeepingUrl(m, x64, download, download64, row, row64) ==
    IF x64
    THEN LET m2 == SetKey(m, "autoupdate.url",
                          << <<"autoupdate.architecture.64bit.url", download64>>,
                             <<"autoupdate.architecture.32bit.url", download>> >>)
         IN SetKey(m2, "architecture",
                   << <<"architecture.64bit.url", download64>>,
                      <<"architecture.64bit.hash", <<row64.hash>>>>,
                      <<"architecture.32bit.url", download>>,
                      <<"architecture.32bit.hash", <<row.hash>>>> >>)
    ELSE LET m1 == Pop(m, "architecture")
             m2 == SetKey(m1, "url", << <<"url", download>> >>)
         IN SetKey(m2, "hash", << <<"hash", <<row.hash>>>> >>)

\* do_padfile, lines 316-330.
WithArchitecture(m, x64, download, download64, row, row64) ==
    IF x64
    THEN LET m1 == Pop(Pop(m, "url"), "hash")
             m2 == SetKey(m1, "autoupdate.url",
                          << <<"autoupdate.architecture.64bit.url", download64>>,
                             <<"autoupdate.architecture.32bit.url", download>> >>)
         IN SetKey(m2, "architecture",
                   << <<"architecture.64bit.url", download64>>,
                      <<"architecture.64bit.hash", <<row64.hash>>>>,
                      <<"architecture.32bit.url", download>>,
                      <<"architecture.32bit.hash", <<row.hash>>>> >>)
    ELSE LET m1 == Pop(m, "architecture")
             m2 == SetKey(m1, "url", << <<"url", download>> >>)
         IN SetKey(m2, "hash", << <<"hash", <<row.hash>>>> >>)

\* manifest[key] += suffix, when the key is there.
AppendTo(m, key, suffix) ==
    [i \in 1..Len(m) |-> IF m[i][1] = key THEN <<key, Append(m[i][2], suffix)>> ELSE m[i]]

\* do_padfile, lines 332-349.
WithPreInstall(m, n) ==
    LET steps == <<"New-Item", n, ".cfg", SP, "New-Item", n, "_lng.ini">>
        password == PasswordOf(n)
    IN IF password # ""
       THEN LET m1 == IF HasKey(m, "architecture.64bit.url") \/ HasKey(m, "architecture.32bit.url")
                      THEN AppendTo(AppendTo(m, "architecture.64bit.url", "#dl.zip_"),
                                    "architecture.32bit.url", "#dl.zip_")
                      ELSE AppendTo(m, "url", "#dl.zip_")
            IN Append(m1, <<"pre_install", steps \o <<SP, "7z", "-p", password>>>>)
       ELSE Append(m, <<"pre_install", steps>>)

BuildManifest(n, version, download, download64, x64, row, row64) ==
    WithPreInstall(
        WithArchitecture(BaseManifest(n, version, download, row),
                         x64, download, download64, row, row64), n)

\* The URLs do_padfile derives for the program n (lines 256 and 271).
Download(n) == Replace(PadDownload(n), "http:", "https:")
Download64(n) == Replace(Download(n), ".zip", "-x64.zip")

\* The rows update_row leaves after a body fetch, and the row of no fetch.
FetchedRows(url) ==
    {EmptyRow}
    \cup {[EmptyRow EXCEPT !.hash = sha256sum(Served(url, t)),
                           !.exe = probe_for_exe(Served(url, t))] : t \in 1..MaxTime}

\* The manifests do_padfile builds, and for each of them the three texts the
\* program derives from it, computed once: json.load of the written file,
\* the compared form of rewrite_json, and the written file.
ManifestsOf(n) ==
    {BuildManifest(n, v, Download(n), Download64(n), x64, row, row64) :
        v \in Versions, x64 \in BOOLEAN,
        row \in FetchedRows(Download(n)), row64 \in FetchedRows(Download64(n))}

Manifests == UNION {ManifestsOf(n) : n \in Names}

WrittenOf == [m \in Manifests |-> JsonDumpIndent4(m)]
ComparedOf == [m \in Manifests |-> ReSubSpaces(JsonDumps(m))]
LoadedOf == [t \in {WrittenOf[m] : m \in Manifests} |-> JsonLoad(t)]

\* json.load, the compared form and json.dump(indent=4), looked up when the
\* argument is one computed above and computed otherwise.
Load(text) == IF text \in DOMAIN LoadedOf THEN LoadedOf[text] ELSE JsonLoad(text)
Canonical(m) == IF m \in DOMAIN ComparedOf THEN ComparedOf[m] ELSE ReSubSpaces(JsonDumps(m))
Indent4(m) == IF m \in DOMAIN WrittenOf THEN WrittenOf[m] ELSE JsonDumpIndent4(m)

\* rewrite_json comparing the text of the file with the text it would write,
\* instead of the two records.
rewrite_json_text(file, manifest) ==
    IF file.exists /\ file.text = Indent4(manifest)
    THEN [file |-> file, wrote |-> FALSE, raised |-> FALSE]
    ELSE [file |-> FileOf(Indent4(manifest)), wrote |-> TRUE, raised |-> FALSE]

\* rewrite_json(json_file, manifest): the file afterwards, whether it was
\* written, and whether json.load raised.
rewrite_json(file, manifest) ==
    IF file.exists
    THEN LET loaded == Load(file.text)
         IN IF ~loaded.ok
            THEN [file |-> file, wrote |-> FALSE, raised |-> TRUE]
            ELSE LET old == Canonical(loaded.rec)
                     new == Canonical(manifest)
                 IN IF old = new
                    THEN [file |-> file, wrote |-> FALSE, raised |-> FALSE]
                    ELSE [file |-> FileOf(Indent4(manifest)),
                          wrote |-> TRUE, raised |-> FALSE]
    ELSE [file |-> FileOf(Indent4(manifest)), wrote |-> TRUE, raised |-> FALSE]

\* The result of do_padfile: the table, the manifest file, whether an
\* exception left the function, the manifest handed to rewrite_json (<<>> when
\* none was), the URLs whose metadata probe was answered, and the operations
\* in order.
PadResult(urls, file, raised, manifest, probed, ops) ==
    [urls |-> urls, file |-> file, raised |-> raised,
     manifest |-> manifest, probed |-> probed, ops |-> ops]

\* TRUE when op is one of the operations ops.
Issued(ops, op) == \E i \in 1..Len(ops) : ops[i] = op

\* The URL of a call of update_row, when its metadata probe was answered
\* (the pause of line 131 follows the answer).
ProbedBy(res, url) == IF Issued(res.ops, "pause") THEN {url} ELSE {}

\* The caller storing the entry whether or not the call raised.
AfterCallAlways(urls, key, res) == Put(urls, key, res.row)

\* The dict after a call of update_row on urls.get(key, default): an entry of
\* the dict is the very object update_row changed; a new one is stored by the
\* caller, unless the call raised.
AfterCall(urls, key, res) ==
    IF Has(urls, key) \/ ~res.raised THEN Put(urls, key, res.row) ELSE urls

\* The guard reading the 64-bit URL from a key the manifest never has: it
\* finds none and lets every descriptor through.
RefusesNever(x64, url64) == FALSE

\* do_padfile, line 287: the manifest on disk names a 64-bit URL and the
\* 64-bit archive is not available.
Refuses(x64, url64) == ~x64 /\ url64 # <<>>

\* do_padfile from line 271 on: the 64-bit check, the manifest and its write.
Secondary(n, pad, urls, file, flag, download, row, r64, probed, ops) ==
    LET download64 == Replace(download, ".zip", "-x64.zip")
        res64 == update_row(Get(urls, download64, EmptyRow), download64, flag, r64)
        urls2 == AfterCall(urls, download64, res64)
        probed2 == probed \cup ProbedBy(res64, download64)
        ops2 == ops \o <<"update_row64">> \o res64.ops
    IN IF res64.raised THEN PadResult(urls2, file, TRUE, <<>>, probed2, ops2)
       ELSE LET loaded == IF file.exists THEN Load(file.text) ELSE [ok |-> TRUE, rec |-> <<>>]
                ops3 == IF file.exists THEN Append(ops2, "load") ELSE ops2
                url64 == ValueOf(loaded.rec, "architecture.64bit.url", <<>>)
            IN IF ~loaded.ok THEN PadResult(urls2, file, TRUE, <<>>, probed2, ops3)
               ELSE IF file.exists /\ Refuses(res64.rv, url64)
               THEN PadResult(urls2, file, FALSE, <<>>, probed2, ops3)
               ELSE LET manifest == BuildManifest(n, pad.version, download, download64,
                                                  res64.rv, row, res64.row)
                        w == rewrite_json(file, manifest)
                    IN PadResult(urls2, w.file, w.raised, manifest, probed2,
                                 ops3 \o <<"rewrite_json">>
                                      \o (IF w.wrote THEN <<"write">> ELSE <<>>))

\* do_padfile without the test of the primary entry's exe (lines 267-269).
do_padfile_any_exe(n, pad, urls, file, flag, r32, r64) ==
    IF pad.kind # "pad" THEN PadResult(urls, file, TRUE, <<>>, {}, <<>>)
    ELSE LET download == Replace(PadDownload(n), "http:", "https:")
             res == update_row(Get(urls, download, EmptyRow), download, flag, r32)
             urls1 == AfterCall(urls, download, res)
             probed == ProbedBy(res, download)
             ops == <<"update_row32">> \o res.ops
         IN IF res.raised THEN PadResult(urls1, file, TRUE, <<>>, probed, ops)
            ELSE IF ~res.rv THEN PadResult(urls1, file, FALSE, <<>>, probed, ops)
            ELSE Secondary(n, pad, urls1, file, flag, download, res.row, r64, probed, ops)

\* do_padfile(pad_name, pad_data, urls) for the program n; r32 and r64 are
\* the answers of the network for the primary and the 64-bit URL.
do_padfile(n, pad, urls, file, flag, r32, r64) ==
    IF pad.kind # "pad" THEN PadResult(urls, file, TRUE, <<>>, {}, <<>>)
    ELSE LET download == Replace(PadDownload(n), "http:", "https:")
             res == update_row(Get(urls, download, EmptyRow), download, flag, r32)
             urls1 == AfterCall(urls, download, res)
             probed == ProbedBy(res, download)
             ops == <<"update_row32">> \o res.ops
         IN IF res.raised THEN PadResult(urls1, file, TRUE, <<>>, probed, ops)
            ELSE IF ~res.rv THEN PadResult(urls1, file, FALSE, <<>>, probed, ops)
            ELSE IF res.row.exe = <<>> THEN PadResult(urls1, file, FALSE, <<>>, probed, ops)
            ELSE Secondary(n, pad, urls1, file, flag, download, res.row, r64, probed, ops)

\* TRUE when update_row on this row issues the body fetch for this answer of
\* the probe.
Fetches(row, flag, h) ==
    /\ ~Sticky(row, flag)
    /\ h.head = "status" /\ Ok(h.code) /\ h.hasLm
    /\ Newer(h.mtime, IF row.last_modified = NoTime THEN 0 ELSE row.last_modified)

\* TRUE when do_padfile reaches the 64-bit check with these answers.
NeedsSecondary(n, pad, urls, flag, r32) ==
    /\ pad.kind = "pad"
    /\ LET download == Replace(PadDownload(n), "http:", "https:")
           res == update_row(Get(urls, download, EmptyRow), download, flag, r32)
       IN ~res.raised /\ res.rv /\ res.row.exe # <<>>

\* ------------------------------------------------------------------ state
VARIABLES
    name,       \* the program the model follows (fixed)
    pc,         \* "init", "pads" (in the loop of main), "done" (after the save),
                \* "failed" (main left by an exception)
    seen,       \* whether the program's descriptor was handled in this run
    urlsCsv,    \* cache/urls.csv
    urls,       \* urls of main
    bucket,     \* bucket/<name>.json
    passed,     \* the manifest the last do_padfile handed to rewrite_json
    probed,     \* the URLs whose metadata probe was answered in this run
    trace,      \* the operations of the last step, in order
    fault,      \* where the exception that ended the run was raised
    before      \* history: the files on disk when the run started, where a
                \* specification follows them ("none" elsewhere)

vars == <<name, pc, seen, urlsCsv, urls, bucket, passed, probed, trace, fault, before>>

Init ==
    /\ name \in Names
    /\ pc = "init"
    /\ seen = FALSE
    /\ urlsCsv = NoCsv
    /\ urls = <<>>
    /\ bucket = NoFile
    /\ passed = <<>>
    /\ probed = {}
    /\ trace = <<>>
    /\ fault = "none"
    /\ before = "none"

Idle == pc \in {"init", "done", "failed"}

\* main, lines 161-184: the table is loaded and the catalog archive fetched
\* and opened; the loop over its documents starts.
StartRun ==
    /\ Idle
    /\ pc' = "pads"
    /\ seen' = FALSE
    /\ urls' = LoadCsv(urlsCsv)
    /\ passed' = <<>>
    /\ probed' = {}
    /\ trace' = <<"get_pads", "pause">>
    /\ fault' = "none"
    /\ UNCHANGED <<before, name, urlsCsv, bucket>>

\* main, lines 177-179 and 183: the catalog fetch raises (a timeout, a
\* non-success status, not a zip archive) and main ends without a save.
CatalogFails ==
    /\ Idle
    /\ pc' = "failed"
    /\ fault' = "catalog"
    /\ urls' = <<>>
    /\ seen' = FALSE
    /\ passed' = <<>>
    /\ probed' = {}
    /\ trace' = <<"get_pads">>
    /\ UNCHANGED <<before, name, urlsCsv, bucket>>

\* The effect of one iteration of the loop of main on a decoded document,
\* given the result of do_padfile.
Iterate(pad, res) ==
    /\ urls' = res.urls
    /\ bucket' = res.file
    /\ passed' = res.manifest
    /\ probed' = probed \cup res.probed
    /\ trace' = res.ops \o (IF res.raised THEN <<"print_exc">> ELSE <<>>)
    /\ seen' = (seen \/ pad.kind = "pad")
    /\ UNCHANGED <<before, name, pc, urlsCsv, fault>>

\* The answers of the network update_row reads for this row: the probe's
\* and, when a body fetch follows it, the fetch's.
Answers(row, flag) ==
    {r \in Resps : r.get # "ok" => Fetches(row, flag, r)}

\* The values of check_404s() the calls of update_row on these rows can tell
\* apart: the configuration is read only for a row whose stored status is 404.
Flags(rows) == IF \E row \in rows : row.status = 404 THEN BOOLEAN ELSE {FALSE}

\* The configurations and the answers one iteration reads: none for a
\* document that is not a descriptor, the 64-bit ones only when do_padfile
\* reaches the 64-bit check.
Flags32(pad) ==
    IF pad.kind = "pad"
    THEN Flags({Get(urls, Download(name), EmptyRow), Get(urls, Download64(name), EmptyRow)})
    ELSE {FALSE}

Answers32(pad, flag) ==
    IF pad.kind = "pad" THEN Answers(Get(urls, Download(name), EmptyRow), flag)
    ELSE {CHOOSE r \in Resps : TRUE}

Answers64(pad, flag, r32) ==
    IF NeedsSecondary(name, pad, urls, flag, r32)
    THEN Answers(Get(urls, Download64(name), EmptyRow), flag)
    ELSE {r32}

\* main, lines 185-200: the next document of the archive, which holds any
\* number of documents and the program's descriptor at most once.  A document
\* that is not UTF-8 raises at line 187, outside the try, and ends main.
DoPad ==
    /\ pc = "pads"
    /\ \E pad \in Pads :
        /\ pad.kind = "pad" => ~seen
        /\ IF pad.kind = "undecodable"
           THEN /\ pc' = "failed"
                /\ fault' = "descriptor"
                /\ trace' = <<>>
                /\ passed' = <<>>
                /\ probed' = {}
                /\ urls' = <<>>
                /\ seen' = FALSE
                /\ UNCHANGED <<before, name, urlsCsv, bucket>>
           ELSE \E flag \in Flags32(pad) :
                \E r32 \in Answers32(pad, flag) :
                \E r64 \in Answers64(pad, flag, r32) :
                    Iterate(pad, do_padfile(name, pad, urls, bucket, flag, r32, r64))

\* main, lines 202-210: no document is left; the table is written and main
\* returns.
Save ==
    /\ pc = "pads"
    /\ urlsCsv' = SaveCsv(urls)
    /\ pc' = "done"
    /\ urls' = <<>>
    /\ seen' = FALSE
    /\ passed' = <<>>
    /\ probed' = {}
    /\ trace' = <<"save">>
    /\ UNCHANGED <<before, name, bucket, fault>>

Next == StartRun \/ CatalogFails \/ DoPad \/ Save

Spec == Init /\ [][Next]_vars

\* ------------------------------------------------------------- whole runs
\* A world: the catalog upstream publishes, the configuration of check_404s
\* and the answers of the network for the two URLs of the program.
World(docs, flag, r32, r64) == [docs |-> docs, flag |-> flag, r32 |-> r32, r64 |-> r64]

Catalogs ==
    {<<Pad("pad", v)>> : v \in Versions}
    \cup {<<Pad("malformed", ""), Pad("pad", v)>> : v \in Versions}

Worlds ==
    {World(docs, flag, r32, r64) :
        docs \in Catalogs, flag \in BOOLEAN, r32 \in Resps, r64 \in Resps}

\* The state of a run after do_padfile returned res: urls, the manifest
\* file, the number of manifest writes, and the loop still running.
Handled(st, res) ==
    [urls |-> res.urls, file |-> res.file,
     writes |-> st.writes + (IF Issued(res.ops, "write") THEN 1 ELSE 0),
     completed |-> TRUE]

\* main, lines 185-200, over the documents docs.
RECURSIVE RunPads(_, _, _, _)
RunPads(n, docs, st, w) ==
    IF docs = <<>> THEN st
    ELSE IF Head(docs).kind = "undecodable" THEN [st EXCEPT !.completed = FALSE]
    ELSE RunPads(n, Tail(docs),
                 Handled(st, do_padfile(n, Head(docs), st.urls, st.file, w.flag, w.r32, w.r64)),
                 w)

\* main() in the world w, started with the table csv and the manifest file:
\* the table and the file afterwards, the manifest writes, and whether main
\* returned (lines 202-210 when the loop ended, the table as it was otherwise).
Finished(csv, st) ==
    [csv |-> IF st.completed THEN SaveCsv(st.urls) ELSE csv,
     file |-> st.file, writes |-> st.writes, completed |-> st.completed]

main(n, csv, file, w) ==
    Finished(csv, RunPads(n, w.docs,
                          [urls |-> LoadCsv(csv), file |-> file, writes |-> 0,
                           completed |-> TRUE], w))

\* ------------------------------------------------ rewrite_json on its own
\* The longest run of spaces inside a description.
MaxRun == 2

Spaces(k) == [i \in 1..k |-> SP]

\* Char_Desc_80 of a descriptor: words with runs of spaces between them, a
\* line break, or one word.
Descriptions ==
    {<<"a">> \o Spaces(k) \o <<"b">> : k \in 1..MaxRun}
    \cup {<<"a", NL, "b">>, <<"ab">>}

\* The records handed to rewrite_json and found in the files, in the two
\* orders of their keys.
RwRecords ==
    {<< <<"version", <<v>>>>, <<"description", d>> >> : v \in {"1.0", "1.1"}, d \in Descriptions}
    \cup {<< <<"description", d>>, <<"version", <<v>>>> >> : v \in {"1.0", "1.1"}, d \in Descriptions}

Styles == {"indent4", "dumps", "compact", "indent2"}

\* The manifest file before the call: absent, a record in one of the
\* layouts, or a file cut short, which json.load rejects.
RwFiles ==
    {NoFile}
    \cup {FileOf(Format(rec, style)) : rec \in RwRecords, style \in Styles}
    \cup {FileOf(<<"{", QUOTE, "version", QUOTE>>)}

InitRW ==
    /\ name = "nircmd"
    /\ pc = "rw"
    /\ seen = FALSE
    /\ urlsCsv = NoCsv
    /\ urls = <<>>
    /\ bucket \in RwFiles
    /\ passed \in RwRecords
    /\ probed = {}
    /\ trace = <<>>
    /\ fault = "none"
    /\ before = "none"

\* One call rewrite_json(json_file, passed) on the file bucket.
RwCall ==
    /\ pc = "rw"
    /\ LET w == rewrite_json(bucket, passed)
       IN /\ bucket' = w.file
          /\ trace' = <<"rewrite_json">>
                      \o (IF w.wrote THEN <<"write">> ELSE <<>>)
                      \o (IF w.raised THEN <<"raise">> ELSE <<>>)
    /\ pc' = "rw_done"
    /\ UNCHANGED <<before, name, seen, urlsCsv, urls, passed, probed, fault>>

NextRW == RwCall

SpecRW == InitRW /\ [][NextRW]_vars

\* ------------------------------------------- the requests of one run
\* The documents of the catalog archive one run handles, at most.
MaxDocs == 3

\* The answers to a call of update_row, the body fetch that raises in
\* requests.get included.
NetResps == {[h EXCEPT !.get = g] : h \in Heads, g \in {"ok", "status", "timeout"}}

NetAnswers(row, flag) == {r \in NetResps : r.get # "ok" => Fetches(row, flag, r)}

\* What an earlier run left when every primary archive was served with the
\* modification time 1 and every 64-bit archive was missing: the two entries
\* of every program and its manifest without architectures.
Left32(n) ==
    [url |-> Download(n), status |-> 200, last_modified |-> 1,
     hash |-> sha256sum(Served(Download(n), 1)),
     exe |-> probe_for_exe(Served(Download(n), 1))]

Left64(n) == [EmptyRow EXCEPT !.url = Download64(n), !.status = 404]

LeftFile(n) ==
    FileOf(Indent4(BuildManifest(n, "2.05", Download(n), Download64(n), FALSE,
                                 Left32(n), Left64(n))))

\* The table and the manifests before the run: none, or those of the earlier
\* run.
Earlier ==
    [csv |-> [exists |-> TRUE,
              rows |-> <<Left32("nircmd"), Left64("nircmd"),
                         Left32("netpass"), Left64("netpass")>>],
     files |-> [n \in Names |-> LeftFile(n)]]

Fresh == [csv |-> NoCsv, files |-> [n \in Names |-> NoFile]]

\* The documents handled so far in the run whose operations are tr.
Docs(tr) == Cardinality({i \in 1..Len(tr) : tr[i] = "do_padfile"})

\* check_404s() is a function of the command line and the environment, which
\* do not change during a run: a value agrees with the values already read.
Configured(tr, flag) ==
    /\ Issued(tr, "check_404s=TRUE") => flag
    /\ Issued(tr, "check_404s=FALSE") => ~flag

\* In this specification name is the program of the document in hand, seen
\* the programs whose descriptor was handled, bucket the manifest file of
\* every program and trace the operations of the whole run.
InitNet ==
    /\ name = "nircmd"
    /\ pc = "net"
    /\ seen = {}
    /\ \E left \in {Fresh, Earlier} : urlsCsv = left.csv /\ bucket = left.files
    /\ urls = <<>>
    /\ passed = <<>>
    /\ probed = {}
    /\ trace = <<>>
    /\ fault = "none"
    /\ before = "none"

\* main, lines 161-184, with the outcome of the catalog fetch: served, a
\* non-success status (raise_for_status raises after the pause) or a timeout
\* (requests.get raises before it).
NetStart ==
    /\ pc = "net"
    /\ \E outcome \in {"ok", "status", "timeout"} :
        /\ pc' = IF outcome = "ok" THEN "net_pads" ELSE "net_failed"
        /\ fault' = IF outcome = "ok" THEN "none" ELSE "catalog"
        /\ urls' = IF outcome = "ok" THEN LoadCsv(urlsCsv) ELSE <<>>
        /\ trace' = IF outcome = "timeout" THEN <<"get_pads">> ELSE <<"get_pads", "pause">>
    /\ UNCHANGED <<before, name, seen, urlsCsv, bucket, passed, probed>>

\* The effect of one iteration of the loop of main on the document pad of the
\* program n, given the result of do_padfile.
NetIterate(n, pad, res) ==
    /\ name' = n
    /\ urls' = res.urls
    /\ bucket' = [bucket EXCEPT ![n] = res.file]
    /\ passed' = res.manifest
    /\ probed' = probed \cup res.probed
    /\ trace' = trace \o <<"do_padfile">> \o res.ops
                      \o (IF res.raised THEN <<"print_exc">> ELSE <<>>)
    /\ seen' = (IF pad.kind = "pad" THEN seen \cup {n} ELSE seen)
    /\ UNCHANGED <<before, pc, urlsCsv, fault>>

\* main, lines 185-200: the next document, of any program of the catalog.
NetPad ==
    /\ pc = "net_pads"
    /\ Docs(trace) < MaxDocs
    /\ \E n \in Names : \E pad \in Pads :
        /\ pad.kind = "pad" => n \notin seen
        /\ pad.kind # "pad" => n = "nircmd"
        /\ IF pad.kind = "undecodable"
           THEN /\ pc' = "net_failed"
                /\ fault' = "descriptor"
                /\ trace' = Append(trace, "raise")
                /\ UNCHANGED <<before, name, seen, urlsCsv, urls, bucket, passed, probed>>
           ELSE LET row32 == Get(urls, Download(n), EmptyRow)
                    row64 == Get(urls, Download64(n), EmptyRow)
                IN \E flag \in Flags({row32, row64}) :
                      /\ Configured(trace, flag)
                      /\ \E r32 \in (IF pad.kind = "pad" THEN NetAnswers(row32, flag)
                                     ELSE {CHOOSE r \in NetResps : TRUE}) :
                         \E r64 \in (IF NeedsSecondary(n, pad, urls, flag, r32)
                                     THEN NetAnswers(row64, flag) ELSE {r32}) :
                            NetIterate(n, pad, do_padfile(n, pad, urls, bucket[n], flag, r32, r64))

\* main, lines 202-210.
NetSave ==
    /\ pc = "net_pads"
    /\ urlsCsv' = SaveCsv(urls)
    /\ pc' = "net_done"
    /\ trace' = Append(trace, "save")
    /\ UNCHANGED <<before, name, seen, urls, bucket, passed, probed, fault>>

NextNet == NetStart \/ NetPad \/ NetSave

SpecNet == InitNet /\ [][NextNet]_vars

\* ------------------------------------------- the writes, step by step
\* The two writes of a run as the file system sees them, and an interrupt
\* (KeyboardInterrupt, which "except Exception" does not catch, or a kill) at
\* any point between their steps.

\* The manifest files rewrite_json wrote in earlier runs.
CutFiles == {NoFile} \cup {FileOf(JsonDumpIndent4(rec)) : rec \in RwRecords}

\* The table in memory when the loop of main ends: the loaded table after a
\* call of update_row for the primary URL.
CutUrls(csv) ==
    LET d == LoadCsv(csv)
        u == Download("nircmd")
    IN {AfterCall(d, u, update_row(Get(d, u, EmptyRow), u, FALSE, r)) :
            r \in {Resp("status", 500, FALSE, 0, "ok"), Resp("status", 200, TRUE, MaxTime, "ok")}}

\* open(path, "w"): the file exists and is empty.
Truncated == FileOf(<<>>)
TruncatedCsv == [exists |-> TRUE, rows |-> <<>>]

InitCut ==
    /\ name = "nircmd"
    /\ pc = "cut"
    /\ seen = FALSE
    /\ urlsCsv \in {NoCsv, Earlier.csv}
    /\ urls \in CutUrls(urlsCsv)
    /\ bucket \in CutFiles
    /\ passed \in RwRecords
    /\ probed = {}
    /\ trace = <<>>
    /\ fault = "none"
    /\ before = [file |-> bucket, csv |-> urlsCsv]

\* rewrite_json, lines 358-367: the comparison.  The file is written when it
\* is absent or differs; otherwise (and when json.load raises, which main
\* catches) the run goes on to the save.
CutCompare ==
    /\ pc = "cut"
    /\ LET w == rewrite_json(bucket, passed)
       IN pc' = IF w.wrote THEN "cut_open" ELSE "cut_save"
    /\ trace' = <<"rewrite_json">>
    /\ UNCHANGED <<before, name, seen, urlsCsv, urls, bucket, passed, probed, fault>>

\* rewrite_json, line 370: open(json_file, "w") truncates the file.
CutOpen ==
    /\ pc = "cut_open"
    /\ bucket' = Truncated
    /\ pc' = "cut_dump"
    /\ trace' = <<"open">>
    /\ UNCHANGED <<before, name, seen, urlsCsv, urls, passed, probed, fault>>

\* rewrite_json, line 371: json.dump writes the text piece by piece; the
\* file is closed after the last piece.
CutDump ==
    /\ pc = "cut_dump"
    /\ LET text == JsonDumpIndent4(passed)
           k == Len(bucket.text) + 1
       IN /\ bucket' = FileOf(SubSeq(text, 1, k))
          /\ pc' = IF k = Len(text) THEN "cut_save" ELSE "cut_dump"
    /\ trace' = <<"write">>
    /\ UNCHANGED <<before, name, seen, urlsCsv, urls, passed, probed, fault>>

\* main, lines 204-206: open(URLS_CSV, "w") truncates the table and the
\* header is written.
CutSaveOpen ==
    /\ pc = "cut_save"
    /\ urlsCsv' = TruncatedCsv
    /\ pc' = IF urls = <<>> THEN "cut_done" ELSE "cut_rows"
    /\ trace' = <<"open">>
    /\ UNCHANGED <<before, name, seen, urls, bucket, passed, probed, fault>>

\* main, lines 207-208: one row is written; the file is closed after the
\* last one.
CutRow ==
    /\ pc = "cut_rows"
    /\ LET k == Len(urlsCsv.rows) + 1
       IN /\ urlsCsv' = [exists |-> TRUE, rows |-> Append(urlsCsv.rows, urls[k].v)]
          /\ pc' = IF k = Len(urls) THEN "cut_done" ELSE "cut_rows"
    /\ trace' = <<"writerow">>
    /\ UNCHANGED <<before, name, seen, urls, bucket, passed, probed, fault>>

\* The process is interrupted.  A file that is open keeps the pieces written
\* so far when it is closed on the way out, and none of them when the process
\* is killed with the pieces still in its buffer.
Interrupt ==
    /\ pc \in {"cut", "cut_open", "cut_dump", "cut_save", "cut_rows"}
    /\ pc' = "cut_killed"
    /\ bucket' \in (IF pc = "cut_dump" THEN {bucket, Truncated} ELSE {bucket})
    /\ urlsCsv' \in (IF pc = "cut_rows" THEN {urlsCsv, TruncatedCsv} ELSE {urlsCsv})
    /\ trace' = <<"interrupt">>
    /\ UNCHANGED <<before, name, seen, urls, passed, probed, fault>>

NextCut == CutCompare \/ CutOpen \/ CutDump \/ CutSaveOpen \/ CutRow \/ Interrupt

SpecCut == InitCut /\ [][NextCut]_vars

\* ------------------------------------------------ probe_for_exe on its own
\* The entries of an archive's directory, at most.
MaxEntries == 3

\* Names of entries, as <<..., suffix>>: executables (one of them in a
\* folder), a name in capitals, other files, a name that holds ".exe" before
\* its end, and the bare suffix.
EntryNames ==
    {<<"nircmd", ".exe">>, <<"x64/", "nircmd", ".exe">>, <<"NIRCMD", ".EXE">>,
     <<"readme", ".txt">>, <<"nircmd", ".exe", ".bak">>, <<".exe">>}

RECURSIVE Directories(_)
Directories(k) ==
    IF k = 0 THEN {<<>>}
    ELSE Directories(k - 1)
         \cup {Append(d, fn) : d \in {e \in Directories(k - 1) : Len(e) = k - 1}, fn \in EntryNames}

\* The bytes handed to probe_for_exe: a zip archive with its directory, or
\* bytes that are none (an HTML error page, nothing at all).
Bytes ==
    {[bytes |-> <<"zip", d>>, zip |-> TRUE, names |-> d] : d \in Directories(MaxEntries)}
    \cup {[bytes |-> <<b, <<>>>>, zip |-> FALSE, names |-> <<>>] : b \in {"<html>", ""}}

\* In this specification bucket is the bytes handed to probe_for_exe and
\* passed the value it returned.
InitProbe ==
    /\ name = "nircmd"
    /\ pc = "probe"
    /\ seen = FALSE
    /\ urlsCsv = NoCsv
    /\ urls = <<>>
    /\ bucket \in Bytes
    /\ passed = <<>>
    /\ probed = {}
    /\ trace = <<>>
    /\ fault = "none"
    /\ before = "none"

\* One call probe_for_exe(bucket): zipfile.ZipFile raises BadZipFile for
\* bytes that are no archive, which the function catches.
ProbeCall ==
    /\ pc = "probe"
    /\ passed' = probe_for_exe(bucket)
    /\ trace' = (IF bucket.zip THEN <<"namelist">> ELSE <<"BadZipFile", "print">>)
                \o <<"return">>
    /\ pc' = "probe_done"
    /\ UNCHANGED <<before, name, seen, urlsCsv, urls, bucket, probed, fault>>

NextProbe == ProbeCall

SpecProbe == InitProbe /\ [][NextProbe]_vars

\* ----------------------------------------------------------- vocabulary
\* The two URLs of the program the model follows.
Tracked == {Download(name), Download64(name)}

\* The entry of u in a table, and the same on disk.
EntryOf(d, u) == Get(d, u, EmptyRow)
StoredEntry(csv, u) == EntryOf(LoadCsv(csv), u)

\* float(row["last_modified"] or "0")
Numeric(last_modified) == IF last_modified = NoTime THEN 0 ELSE last_modified

\* The operations of tr after the first op, and before it.
After(tr, op) ==
    IF Issued(tr, op)
    THEN SubSeq(tr, (CHOOSE i \in 1..Len(tr) : tr[i] = op /\ \A j \in 1..(i - 1) : tr[j] # op) + 1,
                Len(tr))
    ELSE <<>>

Before(tr, op) ==
    IF Issued(tr, op)
    THEN SubSeq(tr, 1, (CHOOSE i \in 1..Len(tr) : tr[i] = op /\ \A j \in 1..(i - 1) : tr[j] # op) - 1)
    ELSE tr

\* The operations of the primary and of the 64-bit call of update_row in the
\* operations of one descriptor.
Ops32(tr) == Before(Before(After(tr, "update_row32"), "update_row64"), "print_exc")
Ops64(tr) == Before(Before(Before(After(tr, "update_row64"), "load"), "rewrite_json"), "print_exc")

\* A step of the loop of main that handled a descriptor of the program.
PadStep == pc = "pads" /\ pc' = "pads" /\ Issued(trace', "update_row32")

\* The manifest on disk names a 64-bit URL.
Names64(file) ==
    /\ file.exists
    /\ Load(file.text).ok
    /\ ValueOf(Load(file.text).rec, "architecture.64bit.url", <<>>) # <<>>

\* ---------------------------------------------------------------- claims
\* The entry new of u is coherent with the entry old it replaces: a later
\* last_modified comes with the hash and exe of the body upstream serves for
\* that time, and hash and exe do not change otherwise.  (An empty stored
\* value is read as 0, as the code reads it.)
RecomputedIffNewer(u, old, new) ==
    IF Numeric(new.last_modified) > Numeric(old.last_modified)
    THEN /\ new.hash = sha256sum(Served(u, new.last_modified))
         /\ new.exe = probe_for_exe(Served(u, new.last_modified))
    ELSE new.hash = old.hash /\ new.exe = old.exe

\* C1: in every call of update_row, whether or not its body fetch fails, hash
\* and exe are recomputed from the fetched body if and only if the probe
\* observed a modification time later than the stored one: the last_modified
\* of an entry never advances without hash and exe being those of the body
\* served for that time, and hash and exe never change otherwise.
C1_RecomputedIffNewer ==
    [][PadStep => \A u \in Tracked : RecomputedIffNewer(u, EntryOf(urls, u), EntryOf(urls', u))]_vars

\* C2: the last_modified stored for a URL never decreases, on disk from one
\* state to the next, in memory during a run, and from the disk to the memory
\* of the run that loaded it; the empty value is lower than every time.
C2_NeverDecreases ==
    [][\A u \in Tracked :
        /\ StoredEntry(urlsCsv', u).last_modified >= StoredEntry(urlsCsv, u).last_modified
        /\ pc' = "pads" =>
              EntryOf(urls', u).last_modified >= StoredEntry(urlsCsv', u).last_modified
        /\ (pc = "pads" /\ pc' = "pads") =>
              EntryOf(urls', u).last_modified >= EntryOf(urls, u).last_modified]_vars

\* C2, its case: an entry whose last_modified was saved by an earlier run is
\* probed again with success and no body is fetched (the time observed is not
\* later than the stored one).
C2_ProbedAgain ==
    /\ pc = "pads"
    /\ StoredEntry(urlsCsv, Download(name)).last_modified >= 1
    /\ Ops32(trace) = <<"head", "pause", "return True">>
    /\ EntryOf(urls, Download(name)).last_modified
          = StoredEntry(urlsCsv, Download(name)).last_modified

\* C3: when the manifest on disk names a 64-bit URL and update_row for the
\* 64-bit URL returns False (a failed probe or a skipped entry), the
\* descriptor hands no manifest to rewrite_json, nothing is written and the
\* file is afterwards what it was.
C3_ArchitecturePreserved ==
    [][(PadStep /\ Names64(bucket) /\ Issued(Ops64(trace'), "return False"))
        => (bucket' = bucket /\ ~Issued(trace', "write") /\ passed' = <<>>)]_vars

\* C3, its case: the 64-bit check returned False for a program whose
\* manifest names a 64-bit URL.
C3_Refused ==
    /\ pc = "pads"
    /\ Names64(bucket)
    /\ Issued(Ops64(trace), "return False")
    /\ ~Issued(trace, "write")

\* C4: between runs, for every world: two complete runs of main in that
\* world, one after the other, end with the second writing no manifest and
\* saving the table the first saved.
C4_Idempotent ==
    Idle =>
        \A w \in Worlds :
            LET r1 == main(name, urlsCsv, bucket, w)
                r2 == main(name, r1.csv, r1.file, w)
            IN (r1.completed /\ r2.completed) => (r2.writes = 0 /\ r2.csv = r1.csv)

\* The two shapes of a manifest: top-level url and hash and no architecture,
\* or the architecture map with url and hash for 32bit and 64bit and no
\* top-level url or hash.
ArchitectureKeys ==
    {"architecture.64bit.url", "architecture.64bit.hash",
     "architecture.32bit.url", "architecture.32bit.hash"}

TopLevelShape(m) ==
    /\ HasKey(m, "url") /\ HasKey(m, "hash")
    /\ ~HasKey(m, "architecture")
    /\ \A k \in ArchitectureKeys : ~HasKey(m, k)

ArchitectureShape(m) ==
    /\ \A k \in ArchitectureKeys : HasKey(m, k)
    /\ ~HasKey(m, "architecture")
    /\ ~HasKey(m, "url") /\ ~HasKey(m, "hash")

\* C5: every manifest do_padfile hands to rewrite_json has exactly one of the
\* two shapes, never both and never neither, whatever the 64-bit check
\* returned and whether or not the program is password-protected.
C5_ExactlyOneShape ==
    passed # <<>> => (TopLevelShape(passed) /\ ~ArchitectureShape(passed))
                     \/ (ArchitectureShape(passed) /\ ~TopLevelShape(passed))

\* C5, its case: the manifest of a password-protected program with both
\* architectures was handed to rewrite_json.
C5_PasswordBothArchitectures ==
    /\ name = "netpass"
    /\ passed # <<>>
    /\ ArchitectureShape(passed)
    /\ Issued(trace, "rewrite_json")

\* A call of update_row on the entry row, with its operations and the entry
\* afterwards, follows the rule of the sticky 404.
StickyRule(row, ops, rowAfter) ==
    row.status = 404 =>
        IF Issued(ops, "check_404s=FALSE")
        THEN ops = <<"check_404s=FALSE", "return False">> /\ rowAfter = row
        ELSE Len(ops) >= 2 /\ ops[1] = "check_404s=TRUE" /\ ops[2] = "head"

\* C6: a call of update_row on an entry whose stored status is 404: when
\* check_404s() is false it issues no probe, no body fetch and no pause,
\* returns False and leaves every field of the entry as it was; when
\* check_404s() is true the metadata probe is issued.
C6_Sticky404 ==
    [][PadStep =>
        /\ StickyRule(EntryOf(urls, Download(name)), Ops32(trace'),
                      EntryOf(urls', Download(name)))
        /\ Issued(trace', "update_row64") =>
              StickyRule(EntryOf(urls, Download64(name)), Ops64(trace'),
                         EntryOf(urls', Download64(name)))]_vars

\* C6, its case: the primary entry had status 404, check_404s() was false and
\* the call ended without an operation.
C6_Skipped ==
    /\ pc = "pads"
    /\ trace = <<"update_row32", "check_404s=FALSE", "return False">>
    /\ EntryOf(urls, Download(name)).status = 404

\* C7: a fault raised while a descriptor is handled ends that descriptor
\* only: a run inside the loop over the descriptors stays in the loop or
\* goes on to the save of the table.
C7_FaultsIsolated == [][pc = "pads" => pc' \in {"pads", "done"}]_vars

\* C8: when the existing file holds the new record in another layout (the
\* texts differ in whitespace only), rewrite_json writes nothing and the file
\* is afterwards what it was.
C8_DiffSuppressed ==
    [][(pc = "rw" /\ pc' = "rw_done" /\ bucket.exists
        /\ \E style \in Styles : bucket.text = Format(passed, style))
        => (bucket' = bucket /\ ~Issued(trace', "write"))]_vars

\* C8, its case: the file held the record in the compact layout, which is not
\* the layout rewrite_json writes, and was not written.
C8_CompactKept ==
    /\ pc = "rw_done"
    /\ bucket.exists
    /\ bucket.text = Format(passed, "compact")
    /\ bucket.text # JsonDumpIndent4(passed)
    /\ trace = <<"rewrite_json">>

\* The record a file holds, told from the layouts and not from the parser.
Holds(file, rec) == file.exists /\ \E style \in Styles : file.text = Format(rec, style)
Readable(file) == \E rec \in RwRecords : Holds(file, rec)
RecordOf(file) == CHOOSE rec \in RwRecords : Holds(file, rec)

\* C9, as stated: rewrite_json writes the file exactly when no file exists
\* or the record in it differs from the new record, a difference inside a
\* string value included (a difference in the order of the keys is counted
\* as a difference).
C9_WritesIffDifferent ==
    [][(pc = "rw" /\ pc' = "rw_done" /\ (bucket.exists => Readable(bucket)))
        => (Issued(trace', "write")
             <=> (~bucket.exists \/ RecordOf(bucket) # passed))]_vars

\* A value with every run of spaces cut to one space.
RECURSIVE Squeeze(_)
Squeeze(v) ==
    IF Len(v) < 2 THEN v
    ELSE IF v[1] = SP /\ v[2] = SP THEN Squeeze(Tail(v))
    ELSE <<v[1]>> \o Squeeze(Tail(v))

Squeezed(rec) == [i \in 1..Len(rec) |-> <<rec[i][1], Squeeze(rec[i][2])>>]

\* C9, amended: rewrite_json writes the file exactly when no file exists, or
\* the file is readable and its record, keys in order, differs from the new
\* record by more than the length of runs of spaces inside values; what it
\* writes is the new record with indent 4, and a file it does not write is
\* left as it was (an unreadable file makes the call raise).
C9_WritesIffDifferentModuloSpaces ==
    [][(pc = "rw" /\ pc' = "rw_done") =>
        LET differs == ~bucket.exists
                       \/ (Readable(bucket)
                           /\ Squeezed(RecordOf(bucket)) # Squeezed(passed))
        IN /\ Issued(trace', "write") <=> differs
           /\ differs => bucket' = FileOf(JsonDumpIndent4(passed))
           /\ ~differs => bucket' = bucket
           /\ Issued(trace', "raise") <=> (bucket.exists /\ ~Readable(bucket))]_vars

\* C9, its case: the record of the file and the new record differ in a run
\* of spaces of the description only, and the file was not written.
C9_SpacesIgnored ==
    /\ pc = "rw_done"
    /\ trace = <<"rewrite_json">>
    /\ Readable(bucket)
    /\ RecordOf(bucket) # passed
    /\ Squeezed(RecordOf(bucket)) = Squeezed(passed)

\* C10: the table saved at the end of a run holds every entry the run loaded
\* and an entry for every URL whose probe was answered during the run.
C10_Retention ==
    [][(pc = "pads" /\ pc' = "done")
        => (Keys(LoadCsv(urlsCsv)) \cup probed) \subseteq Keys(LoadCsv(urlsCsv'))]_vars

\* An outbound network operation: the catalog fetch, a metadata probe, a body
\* fetch.
Outbound(op) == op \in {"get_pads", "head", "get"}

\* Between any two network operations of tr there is a pause.
Paced(tr) ==
    \A i \in 1..Len(tr) : \A j \in (i + 1)..Len(tr) :
        (Outbound(tr[i]) /\ Outbound(tr[j])) => \E k \in (i + 1)..(j - 1) : tr[k] = "pause"

\* C11: in every run, a pause is executed between any two successive
\* outbound network operations (the catalog fetch, the metadata probes, the
\* body fetches), also when the earlier one ended in a timeout, a connection
\* failure or a non-success status.
C11_Paced == Paced(trace)

\* C12: when the process is interrupted at any point of a run, the manifest
\* file holds its complete previous content or its complete new content, and
\* the table on disk its complete previous content or the complete new table.
C12_AtomicReplacement ==
    pc = "cut_killed" =>
        /\ bucket \in {before.file, FileOf(JsonDumpIndent4(passed))}
        /\ urlsCsv \in {before.csv, SaveCsv(urls)}

\* C13: probe_for_exe returns, for an archive, the first entry in the order
\* of the directory whose name ends with ".exe", and the empty string when no
\* entry does; for bytes that are no archive it returns the empty string, and
\* it returns (it does not raise) in every case.
C13_FirstExecutable ==
    pc = "probe_done" =>
        /\ trace[Len(trace)] = "return"
        /\ IF bucket.zip /\ \E i \in 1..Len(bucket.names) : EndsWithExe(bucket.names[i])
           THEN \E i \in 1..Len(bucket.names) :
                    /\ passed = bucket.names[i]
                    /\ EndsWithExe(bucket.names[i])
                    /\ \A j \in 1..(i - 1) : ~EndsWithExe(bucket.names[j])
           ELSE passed = <<>>

\* C13, its case: an archive whose first entry is no executable and which
\* holds two different executables; the earlier one was returned.
C13_SecondOfThree ==
    /\ pc = "probe_done"
    /\ bucket.zip
    /\ Len(bucket.names) = 3
    /\ ~EndsWithExe(bucket.names[1])
    /\ EndsWithExe(bucket.names[2]) /\ EndsWithExe(bucket.names[3])
    /\ bucket.names[2] # bucket.names[3]
    /\ passed = bucket.names[2]

\* The number of times op is among the operations tr.
Count(tr, op) == Cardinality({i \in 1..Len(tr) : tr[i] = op})

\* The primary check of the descriptor whose operations are tr returned
\* available.
PrimaryAvailable(tr) ==
    Ops32(tr) # <<>> /\ Ops32(tr)[Len(Ops32(tr))] = "return True"

\* The 64-bit check of the descriptor returned, available or not.
SecondaryReturned(tr) ==
    Ops64(tr) # <<>> /\ Ops64(tr)[Len(Ops64(tr))] \in {"return True", "return False"}

\* C14: in one call of do_padfile, the 64-bit check is made only after the
\* primary check returned available with a non-empty exe; rewrite_json is
\* called at most once and only after both checks returned; when the primary
\* is unavailable or its exe is empty, there is no 64-bit check, no read of
\* the manifest, no call of rewrite_json and no write, and the manifest file
\* is what it was.  (The order of the operations of a descriptor is examined
\* when the run that has just handled it saves; that a descriptor without a
\* 64-bit check reads and writes nothing, at the step that handles it.)
C14_Ordering ==
    [][/\ (PadStep /\ ~Issued(trace', "update_row64")) =>
            /\ Count(trace', "head") <= 1
            /\ ~Issued(trace', "load") /\ ~Issued(trace', "rewrite_json")
            /\ ~Issued(trace', "write")
            /\ bucket' = bucket /\ passed' = <<>>
       /\ (pc = "pads" /\ pc' = "done" /\ Issued(trace, "update_row32")) =>
            LET exe == EntryOf(urls, Download(name)).exe
                available == PrimaryAvailable(trace)
            IN /\ Issued(trace, "update_row64") => (available /\ exe # <<>>)
               /\ (~available \/ exe = <<>>) => ~Issued(trace, "update_row64")
               /\ Count(trace, "rewrite_json") <= 1
               /\ Issued(trace, "rewrite_json") =>
                     /\ available /\ SecondaryReturned(trace)
                     /\ Issued(Before(trace, "rewrite_json"), "update_row64")]_vars

\* C14, its case: the primary check returned available and the archive holds
\* no executable; the descriptor ended there.
C14_NoExecutableSkipped ==
    /\ pc = "pads"
    /\ PrimaryAvailable(trace)
    /\ EntryOf(urls, Download(name)).exe = <<>>
    /\ EntryOf(urls, Download(name)).status = 200
    /\ trace[Len(trace)] = "return True"

\* One call update_row(row, u) with the answers r: after a probe answered
\* with a status of 400 or more the call returns False with the entry
\* changed in url and status only, the status being the one answered, and
\* issues no body fetch; after a probe answered with success the call returns
\* True unless an exception leaves it.
ProbeRule(row, u, flag, r) ==
    LET res == update_row(row, u, flag, r)
    IN (Issued(res.ops, "head") /\ r.head = "status") =>
          IF r.code >= 400
          THEN /\ res.rv = FALSE /\ ~res.raised
               /\ res.row = [row EXCEPT !.url = u, !.status = r.code]
               /\ ~Issued(res.ops, "get")
          ELSE ~res.raised => res.rv = TRUE

\* The call of update_row for u, whose operations in the step are ops: when
\* its probe was answered and it returned, the entry is in the table, with a
\* failure status and nothing else changed after False, with a success status
\* after True.
Recorded(u, ops, old, new) ==
    LET last == ops[Len(ops)]
        entry == EntryOf(new, u)
    IN (Issued(ops, "pause") /\ last \in {"return False", "return True"}) =>
          /\ Has(new, u)
          /\ entry.url = u
          /\ IF last = "return False"
             THEN /\ entry.status >= 400
                  /\ entry = [EntryOf(old, u) EXCEPT !.url = u, !.status = entry.status]
                  /\ ~Issued(ops, "get")
             ELSE entry.status = 200

HashMissing(row) == row.hash \in {"", "tbd"}

\* The manifest on disk has another version than the manifest m built from
\* the descriptor.
VersionDiffers(file, m) ==
    /\ file.exists /\ Load(file.text).ok /\ m # <<>>
    /\ ValueOf(Load(file.text).rec, "version", <<>>) # ValueOf(m, "version", <<>>)

\* C16: in a descriptor pass whose primary probe succeeds, the body of the
\* primary URL is fetched and its hash recomputed whenever the stored hash is
\* missing or the version of the descriptor differs from the version of the
\* manifest on disk, also when the time observed is not later than the
\* stored last_modified.
C16_RecomputedOnVersionOrMissingHash ==
    [][(/\ PadStep
        /\ Issued(Ops32(trace'), "head") /\ PrimaryAvailable(trace')
        /\ \/ HashMissing(EntryOf(urls, Download(name)))
           \/ VersionDiffers(bucket, passed'))
        => Issued(Ops32(trace'), "get")]_vars

\* The hash the manifest m has under key, when it has one, is the digest of
\* the body upstream serves at u for the last_modified the table d holds for
\* u.
Coherent(m, key, d, u) ==
    HasKey(m, key) =>
        ValueOf(m, key, <<>>) = <<sha256sum(Served(u, EntryOf(d, u).last_modified))>>

\* C17: whatever runs and faults came before, every hash of a manifest that
\* is written (top-level, 32bit, 64bit) is the digest of the body upstream
\* served at the last_modified the table holds for that URL at the moment of
\* the write.
C17_ManifestCoherent ==
    [][(PadStep /\ Issued(trace', "write")) =>
        /\ Coherent(passed', "hash", urls', Download(name))
        /\ Coherent(passed', "architecture.32bit.hash", urls', Download(name))
        /\ Coherent(passed', "architecture.64bit.hash", urls', Download64(name))]_vars

\* The program is locked out: the table d holds status 404 for its 64-bit
\* URL and the manifest on disk names a 64-bit URL.
Locked(d, file) == EntryOf(d, Download64(name)).status = 404 /\ Names64(file)

\* C18: once the entry of the 64-bit URL has status 404 while the manifest
\* on disk names a 64-bit URL, a descriptor pass that does not read
\* check_404s() as true issues no probe for the 64-bit URL and writes no
\* manifest, whatever upstream serves, and leaves the program locked out, in
\* memory, in the table the run saves and in the table the next run loads:
\* the manifest changes again only in a run with check_404s() true.
C18_StickyLockout ==
    [][/\ (PadStep /\ Locked(urls, bucket) /\ ~Issued(trace', "check_404s=TRUE")) =>
            /\ ~Issued(Ops64(trace'), "head")
            /\ ~Issued(trace', "write") /\ bucket' = bucket
            /\ Locked(urls', bucket')
       /\ (pc = "pads" /\ pc' = "done" /\ Locked(urls, bucket)) => Locked(LoadCsv(urlsCsv'), bucket')
       /\ (Idle /\ Locked(LoadCsv(urlsCsv), bucket)) => Locked(LoadCsv(urlsCsv'), bucket')
       /\ (Idle /\ pc' = "pads" /\ Locked(LoadCsv(urlsCsv), bucket)) => Locked(urls', bucket')]_vars

\* C18, its case: in a run after the one that stored the 404, the primary
\* URL was served with a later time and its body fetched, the 64-bit entry
\* was skipped without a probe and no manifest was written.
C18_LockedOutDespiteNewBody ==
    /\ pc = "pads"
    /\ Locked(LoadCsv(urlsCsv), bucket) /\ Locked(urls, bucket)
    /\ Issued(Ops32(trace), "get") /\ PrimaryAvailable(trace)
    /\ Ops64(trace) = <<"check_404s=FALSE", "return False">>
    /\ ~Issued(trace, "write")

\* C19: every entry of the table in memory is stored under its own url, which
\* is not empty, and under no other key, so that the table written by the
\* save and loaded by the next run is the same mapping: no entry is merged
\* with another and none is lost.
C19_KeyIsUrl ==
    /\ \A i \in 1..Len(urls) : urls[i].v.url = urls[i].k /\ urls[i].k # <<>>
    /\ \A i, j \in 1..Len(urls) : urls[i].k = urls[j].k => i = j
    /\ LoadCsv(SaveCsv(urls)) = urls

\* C19, its case: the table holds two entries, one of them stored by a
\* probe that failed with 404 and skipped as a sticky 404 in this run.
C19_SkippedAndFailedKept ==
    /\ pc = "pads"
    /\ Len(urls) = 2
    /\ Ops64(trace) = <<"check_404s=FALSE", "return False">>
    /\ EntryOf(urls, Download64(name)).status = 404
    /\ LoadCsv(SaveCsv(urls)) = urls

====
